---------------------------- MODULE Spec2Model ----------------------------
(***************************************************************************)
(* The generate_image tool of the Civitai image generator MCP server.      *)
(*                                                                         *)
(* Two revisions of the server are modelled: src/src/index.ts, which       *)
(* downloads the finished image and returns its local path, and            *)
(* src/unnamed/part_000, which returns the image URL.  The variable        *)
(* revision says which one runs.                                           *)
(*                                                                         *)
(* Representation.                                                         *)
(*  - A JavaScript value is a record [t, n, s]: t is its type, n the       *)
(*    number and s the string.  Numbers are counted in halves (n = 2 * the *)
(*    number), so that 1.5 or 7.5 can be an input and z.number().int() is  *)
(*    a real test.                                                         *)
(*  - Time is in milliseconds.  clock is Date.now().  An await that takes  *)
(*    time (the submission, a status query, the delay) carries the instant *)
(*    it completes in the field due; awaits complete in the order of their *)
(*    due instants.  File system calls and the download take no model      *)
(*    time: nothing in the handler reads the clock after the polling loop. *)
(*  - The code between two awaits runs without interruption (one event     *)
(*    loop turn), so one action is: an await completes, and the handler    *)
(*    runs up to its next await, its return or its throw.                  *)
(*  - negativePrompt, scheduler and additionalNetworks are copied by the   *)
(*    handler and read by no branch; they are left out.                    *)
(*  - process is the server process: the command line and the environment  *)
(*    it was started with and the configuration its top-level code loaded  *)
(*    from them.  The handler runs in a process that is running.           *)
(*  - randomUUID() is taken not to return the same value twice.            *)
(*  - The file system is the output directory: whether it exists, whether  *)
(*    the process may search the path to it (a parent without search       *)
(*    permission hides a directory that exists), and its files.  writeFile *)
(*    creates the file and then writes it: the file is on disk, not yet    *)
(*    complete, while the write is pending and after a write that failed.  *)
(*    A body of no bytes leaves nothing to write: its file is complete as  *)
(*    soon as it is created.                                               *)
(*    A file system call acts on the disk in one step and its await        *)
(*    completes in a later one: other invocations run in between.          *)
(***************************************************************************)
EXTENDS Integers, Sequences, FiniteSets, TLC

VARIABLES
    revision,   \* "index.ts" or "part_000": the build that runs
    process,    \* the server process: its command line, environment and configuration
    clock,      \* Date.now(), ms
    req,        \* req[p]: the arguments of the tool call p (until the submission returns)
    inv,        \* inv[p]: the handler invocation p: its position, locals and calls made
    dirExists,  \* whether outputDir exists on disk
    searchable, \* whether the process may search the path that leads to outputDir
    files       \* the files in outputDir: a set of [path, from, complete]; from is
                \* the URL whose bytes are written, complete whether all are there

vars == <<revision, process, clock, req, inv, dirExists, searchable, files>>

Procs == {1, 2}

-----------------------------------------------------------------------------
(* JavaScript values *)

Undefined == [t |-> "undefined", n |-> 0, s |-> ""]
Null == [t |-> "null", n |-> 0, s |-> ""]
Str(x) == [t |-> "string", n |-> 0, s |-> x]
\* the number h/2
Half(h) == [t |-> "number", n |-> h, s |-> ""]
\* the integer k
Num(k) == Half(2 * k)

\* if (v), !v
Truthy(v) ==
    CASE v.t = "undefined" -> FALSE
      [] v.t = "null" -> FALSE
      [] v.t = "string" -> v.s # ""
      [] v.t = "number" -> v.n # 0
      [] OTHER -> TRUE

\* a faulty variant: no fallback
CoalesceNone(v, d) == v

\* v ?? d
Coalesce(v, d) == IF v.t \in {"undefined", "null"} THEN d ELSE v

-----------------------------------------------------------------------------
(* The start of the process: the command line, the environment, the configuration *)

ConfigKeys == {"CIVITAI_API_TOKEN", "CIVITAI_MODEL_ID", "CIVITAI_OUTPUT_DIR"}

\* the words of a command line (process.argv past the node executable and the script)
ArgWords == {"-e"} \cup ConfigKeys \cup {"", "/cli"}
\* a command line has at most MaxArgs words
MaxArgs == 4
ArgLists == UNION {[1..n -> ArgWords] : n \in 0..MaxArgs}
\* process.env: a variable is unset, or set to a string that may be empty
Envs == [ConfigKeys -> {Undefined, Str(""), Str("/env")}]

\* a || b
Or(a, b) == IF Truthy(a) THEN a ELSE b

\* the for loop of parseCliArgs from index i on (i counts from 0, as in the code)
RECURSIVE ParseFrom(_, _, _)
ParseFrom(args, i, parsed) ==
    IF ~(i < Len(args))
    THEN parsed
    ELSE IF args[i + 1] = "-e" /\ i + 2 < Len(args)
         THEN ParseFrom(args, i + 3, [parsed EXCEPT ![args[i + 2]] = Str(args[i + 3])])
         ELSE ParseFrom(args, i + 1, parsed)

\* parseCliArgs(process.argv): the object of the keys given with -e
parseCliArgs(args) == ParseFrom(args, 0, [w \in ArgWords |-> Undefined])

API_KEY(cliArgs, env) == Or(cliArgs["CIVITAI_API_TOKEN"], env["CIVITAI_API_TOKEN"])
MODEL_ID(cliArgs, env) == Or(cliArgs["CIVITAI_MODEL_ID"], env["CIVITAI_MODEL_ID"])
\* a faulty variant: the default is the working directory itself
OUTPUT_DIR_DefaultCwd(cliArgs, env) ==
    Or(Or(cliArgs["CIVITAI_OUTPUT_DIR"], env["CIVITAI_OUTPUT_DIR"]), Str("."))
OUTPUT_DIR(cliArgs, env) ==
    Or(Or(cliArgs["CIVITAI_OUTPUT_DIR"], env["CIVITAI_OUTPUT_DIR"]), Str("./civitai_output"))

\* process.cwd()
Cwd == "/srv"
\* the words of the model that are absolute paths (they start with "/")
AbsolutePaths == {"/cli", "/env", Cwd}
\* path.resolve(dir): an absolute path is kept, an empty one is the working
\* directory, and a relative one is appended to the working directory ("." and a
\* leading "./" are normalized away)
Resolve(dir) ==
    CASE dir \in AbsolutePaths -> dir
      [] dir = "" -> Cwd
      [] dir = "." -> Cwd
      [] dir = "./civitai_output" -> Cwd \o "/civitai_output"
      [] OTHER -> Cwd \o "/" \o dir

\* the process before its top-level code has run
NotStarted(args, env) ==
    [pc |-> "start", args |-> args, env |-> env,
     apiKey |-> Undefined, modelId |-> Undefined, outputDir |-> ""]

\* the top-level code and the constructor: the configuration is loaded, the
\* process exits when the token (or in index.ts the model) is missing, and the
\* server runs otherwise.  part_000 reads the token only
Main(rev, args, env) ==
    LET cliArgs == parseCliArgs(args)
        p == NotStarted(args, env)
    IN  IF ~Truthy(API_KEY(cliArgs, env))
        THEN [p EXCEPT !.pc = "exit"]
        ELSE IF rev = "part_000"
             THEN [p EXCEPT !.pc = "running", !.apiKey = API_KEY(cliArgs, env)]
             ELSE IF ~Truthy(MODEL_ID(cliArgs, env))
                  THEN [p EXCEPT !.pc = "exit", !.apiKey = API_KEY(cliArgs, env)]
                  ELSE [p EXCEPT !.pc = "running",
                                 !.apiKey = API_KEY(cliArgs, env),
                                 !.modelId = MODEL_ID(cliArgs, env),
                                 !.outputDir = Resolve(OUTPUT_DIR(cliArgs, env).s)]

-----------------------------------------------------------------------------
(* The input schema (zod) *)

IsNumber(v) == v.t = "number"
\* .int()
IsInt(v) == v.n % 2 = 0
\* .min(k)
Min(v, k) == v.n >= 2 * k
\* .max(k)
Max(v, k) == v.n <= 2 * k
\* .multipleOf(k)
MultipleOf(v, k) == v.n % (2 * k) = 0

\* .optional().default(d): the check is skipped for undefined
Optional(v, ok) == v = Undefined \/ ok
\* .default(d)
Default(v, d) == IF v = Undefined THEN d ELSE v

\* a faulty variant: z.string().optional()
ZStringOptional(v) == v = Undefined \/ v.t = "string"
\* z.string()
ZString(v) == v.t = "string"
StepsOk(v) == IsNumber(v) /\ IsInt(v) /\ Min(v, 1) /\ Max(v, 100)
CfgScaleOk(v) == IsNumber(v) /\ Min(v, 1) /\ Max(v, 30)
\* a faulty variant: .multipleOf(8) is missing
SizeOkAnyMultiple(v) == IsNumber(v) /\ IsInt(v) /\ Min(v, 64) /\ Max(v, 1024)
SizeOk(v) == IsNumber(v) /\ IsInt(v) /\ Min(v, 64) /\ Max(v, 1024) /\ MultipleOf(v, 8)
SeedOk(v) == IsNumber(v) /\ IsInt(v)
ClipSkipOk(v) == IsNumber(v) /\ IsInt(v) /\ Min(v, 1) /\ Max(v, 10)

\* the schema of index.ts accepts the arguments a
SchemaAccepts(a) ==
    /\ ZString(a.prompt)
    /\ Optional(a.steps, StepsOk(a.steps))
    /\ Optional(a.cfgScale, CfgScaleOk(a.cfgScale))
    /\ Optional(a.width, SizeOk(a.width))
    /\ Optional(a.height, SizeOk(a.height))
    /\ Optional(a.seed, SeedOk(a.seed))
    /\ Optional(a.clipSkip, ClipSkipOk(a.clipSkip))

\* the schema of part_000: the same, and a required model
SchemaAcceptsUrlRevision(a) == SchemaAccepts(a) /\ ZString(a.model)

\* the parsed params the handler receives: defaults applied, unknown keys dropped
ParsedParams(a) ==
    [prompt |-> a.prompt,
     model |-> IF revision = "part_000" THEN a.model ELSE Undefined,
     steps |-> Default(a.steps, Num(20)),
     cfgScale |-> Default(a.cfgScale, Num(7)),
     width |-> Default(a.width, Num(512)),
     height |-> Default(a.height, Num(768)),
     seed |-> a.seed,
     clipSkip |-> Default(a.clipSkip, Num(2))]

\* a model identifier, as a deployment configures it (index.ts) or a caller
\* passes it (part_000)
ModelId == Str("urn:air:sd1:checkpoint:civitai:4201@130072")

\* civitaiInput, built from the parsed params
CivitaiInput(params) ==
    [model |-> IF revision = "part_000" THEN params.model ELSE process.modelId,
     prompt |-> params.prompt,
     steps |-> params.steps,
     cfgScale |-> params.cfgScale,
     width |-> params.width,
     height |-> params.height,
     seed |-> Coalesce(params.seed, Num(-1)),
     clipSkip |-> params.clipSkip]

NoInput ==
    [model |-> Undefined, prompt |-> Undefined, steps |-> Undefined,
     cfgScale |-> Undefined, width |-> Undefined, height |-> Undefined,
     seed |-> Undefined, clipSkip |-> Undefined]

-----------------------------------------------------------------------------
(* The inputs *)

FieldNames == {"prompt", "model", "steps", "cfgScale", "width", "height", "seed", "clipSkip"}

\* the values a tool call may carry in field f
Inputs(f) ==
    CASE f = "prompt" -> {Undefined, Str(""), Str("a cat")}
      [] f = "model" -> {Undefined, ModelId}
      [] f = "steps" -> {Undefined, Num(0), Num(1), Half(3), Num(100), Num(101)}
      [] f = "cfgScale" -> {Undefined, Half(1), Num(1), Half(15), Num(30), Half(61)}
      [] f = "width" -> {Undefined, Num(56), Num(64), Num(68), Num(1024), Num(1032)}
      [] f = "height" -> {Undefined, Num(56), Num(64), Num(68), Num(1024), Num(1032)}
      [] f = "seed" -> {Undefined, Num(-1), Num(42), Half(3)}
      [] f = "clipSkip" -> {Undefined, Num(0), Num(1), Half(5), Num(10), Num(11)}

\* the plain call: a prompt (and in part_000 a model), every option omitted
PlainCall(rev) ==
    [f \in FieldNames |->
        CASE f = "prompt" -> Str("a cat")
          [] f = "model" -> IF rev = "part_000" THEN ModelId ELSE Undefined
          [] OTHER -> Undefined]

\* a tool call differs from the plain call in at most MaxFieldsVaried fields
MaxFieldsVaried == 2

\* the fields a caller of revision rev can vary (index.ts has no model field)
VariableFields(rev) == IF rev = "part_000" THEN FieldNames ELSE FieldNames \ {"model"}

Requests(rev) ==
    UNION {
        {[f \in FieldNames |-> IF f \in F THEN g[f] ELSE PlainCall(rev)[f]] :
            g \in {h \in [F -> UNION {Inputs(f) : f \in F}] :
                        \A f \in F : h[f] \in Inputs(f) \ {PlainCall(rev)[f]}}} :
        F \in {G \in SUBSET VariableFields(rev) : Cardinality(G) <= MaxFieldsVaried}}

\* no tool call arrives for this invocation
NoRequest == [f \in FieldNames |-> Null]

-----------------------------------------------------------------------------
(* The Civitai service and the network, as the handler sees them *)

\* error.message of an error raised by a network call (the errors carry no
\* response data, so the handler appends no details to its text)
ErrorMessages == {Str("Network Error"), Undefined}

\* the token the service gives the job of invocation p
TokenOf(p) == Str("token-" \o ToString(p))

\* what civitai.image.fromText does: it throws, or resolves to undefined, or to an object
SubmitResponses(p) ==
    {[kind |-> "throw", token |-> Undefined, message |-> m] : m \in ErrorMessages}
    \cup {[kind |-> "undefined", token |-> Undefined, message |-> Undefined]}
    \cup {[kind |-> "object", token |-> t, message |-> Undefined] :
            t \in {Undefined, Null, Str(""), TokenOf(p)}}

NotCalled == [kind |-> "none", token |-> Undefined, message |-> Undefined]

BlobUrls == {Undefined, Str(""), Str("https://x/img.png")}

\* what civitai.jobs.getByToken does: it throws, or resolves to a response whose
\* first job is missing ("nojob") or a job record, with or without a result; a
\* result that is not available carries no URL
StatusReadings ==
    {[kind |-> "throw", scheduled |-> FALSE, hasResult |-> FALSE, available |-> FALSE,
      blobUrl |-> Undefined, message |-> m] : m \in ErrorMessages}
    \cup {[kind |-> "nojob", scheduled |-> FALSE, hasResult |-> FALSE, available |-> FALSE,
           blobUrl |-> Undefined, message |-> Undefined]}
    \cup {[kind |-> "job", scheduled |-> sch, hasResult |-> hr, available |-> FALSE,
           blobUrl |-> Undefined, message |-> Undefined] : sch \in BOOLEAN, hr \in BOOLEAN}
    \cup {[kind |-> "job", scheduled |-> sch, hasResult |-> TRUE, available |-> TRUE,
           blobUrl |-> u, message |-> Undefined] : sch \in BOOLEAN, u \in BlobUrls}

NoReading ==
    [kind |-> "none", scheduled |-> FALSE, hasResult |-> FALSE, available |-> FALSE,
     blobUrl |-> Undefined, message |-> Undefined]

\* a status query takes a whole number of seconds, and the status queries of one
\* invocation take at most MaxLatencySec seconds altogether
MaxLatencySec == 2
\* the submission is immediate or slow
SubmitLatencies == {0, 1000 * MaxLatencySec}

-----------------------------------------------------------------------------
(* What an invocation ends in *)

NoResult == [via |-> "none", isError |-> FALSE, text |-> ""]
\* the call never reaches the handler: the arguments do not match the schema
Rejected == [via |-> "reject", isError |-> TRUE, text |-> "Invalid arguments"]
\* return { content: [{ type: 'text', text }] }
ReturnText(text) == [via |-> "return", isError |-> FALSE, text |-> text]
\* return { content: [{ type: 'text', text }], isError: true }
ReturnError(text) == [via |-> "return", isError |-> TRUE, text |-> text]
\* throw new McpError(ErrorCode.InternalError, message), leaving the handler; text
\* is the message given to the constructor
Throw(message) == [via |-> "throw", isError |-> FALSE, text |-> message]

\* `${v}`; a number is counted in halves and printed as JavaScript prints it
Template(v) ==
    CASE v.t = "string" -> v.s
      [] v.t = "undefined" -> "undefined"
      [] v.t = "null" -> "null"
      [] v.n % 2 = 0 -> ToString(v.n \div 2)
      [] v.n > 0 -> ToString(v.n \div 2) \o ".5"
      [] OTHER -> "-" \o ToString((0 - v.n) \div 2) \o ".5"

\* the message of new McpError(ErrorCode.InternalError, message)
McpMessage(message) == "MCP error -32603: " \o message

NoTokenMessage == "Civitai job submission did not return a token."
NoUrlMessage == "Civitai job completed but the result did not contain an image URL."
JobFailedMessage == "Civitai job failed or finished without an available result."

-----------------------------------------------------------------------------
(* The handler *)

pollIntervalMs == 2000
\* a faulty variant: five minutes
timeoutMsFiveMinutes == 5 * 60 * 1000
timeoutMs == 2 * 60 * 1000

TimeoutMessage ==
    "Polling timed out: Civitai job did not complete within the "
        \o ToString(timeoutMs \div 1000) \o " second limit."

\* this.outputDir
OutputDir == process.outputDir
Uuids == {"uuid-a", "uuid-b"}

\* the promise of a file system call that has settled: fulfilled (ok), or
\* rejected with an error of that message
\* imageBuffer, the body of the image response: not fetched yet, of no bytes, or
\* of some
NoBuffer == "none"
ImageBuffers == {"empty", "bytes"}

NoIo == [ok |-> FALSE, message |-> Undefined]

IdleInv ==
    [pc |-> "idle", civitaiInput |-> NoInput, initialResponse |-> NotCalled,
     jobToken |-> Undefined, startTime |-> 0, due |-> 0, queryStart |-> -1,
     queried |-> {}, reading |-> NoReading, imageUrl |-> Undefined, uuid |-> "",
     imageBuffer |-> NoBuffer,
     localPath |-> "", result |-> NoResult, nSubmits |-> 0, nQueries |-> 0, nSleeps |-> 0,
     nMkdirs |-> 0, nGets |-> 0, nWrites |-> 0, io |-> NoIo]

\* A file system call of fs/promises runs in the thread pool: it acts on the
\* disk, its promise settles, and the handler resumes at its await in a later
\* turn.  Settled is the invocation between the two: at pc, with the outcome
Settled(s, pc, ok, message) ==
    [s EXCEPT !.pc = pc, !.io = [ok |-> ok, message |-> IF ok THEN Undefined ELSE message]]

\* the handler ends
Finish(s, result) == [s EXCEPT !.pc = "done", !.result = result]

\* the invocation q holds a job token
HasJob(q) == inv[q].jobToken # Undefined

\* a faulty variant: the deadline instant itself still passes the test
LoopConditionInclusive(now, startTime, deadline) == now - startTime <= deadline

\* a faulty variant: the loop is left one interval after the deadline
LoopConditionOneMoreInterval(now, startTime, deadline) ==
    now - startTime < deadline + pollIntervalMs

\* while (Date.now() - startTime < timeoutMs), with the deadline as a parameter
LoopCondition(now, startTime, deadline) == now - startTime < deadline

\* a faulty variant: startTime is kept on the server object, which every
\* invocation overwrites: the deadline runs from the latest start
LoopHeadSharedStart(s, now, lat) ==
    LET starts == {s.startTime} \cup {inv[q].startTime : q \in {r \in Procs : HasJob(r)}}
        latest == CHOOSE t \in starts : \A u \in starts : u <= t
    IN  IF LoopCondition(now, latest, timeoutMs)
        THEN [s EXCEPT !.pc = "query", !.nQueries = @ + 1, !.queryStart = now - s.startTime,
                       !.queried = @ \cup {s.jobToken}, !.due = now + lat]
        ELSE Finish(s, Throw(TimeoutMessage))

\* the head of the polling loop at instant now: the next status query is issued,
\* or the loop is left and the timeout error thrown
LoopHead(s, now, lat) ==
    IF LoopCondition(now, s.startTime, timeoutMs)
    THEN [s EXCEPT !.pc = "query", !.nQueries = @ + 1, !.queryStart = now - s.startTime,
                   !.queried = @ \cup {s.jobToken}, !.due = now + lat]
    ELSE Finish(s, Throw(TimeoutMessage))

\* the submission: civitaiInput is built and civitai.image.fromText is called
StartSubmit(s, args, now, lat) ==
    [s EXCEPT !.pc = "submit", !.civitaiInput = CivitaiInput(ParsedParams(args)),
              !.nSubmits = @ + 1, !.due = now + lat]

\* a faulty variant: only the response is tested, not its token
HasTokenResponseOnly(r) == r.kind = "object"

\* !initialResponse?.token is false: the response carries a token
HasToken(r) == Truthy(IF r.kind = "object" THEN r.token ELSE Undefined)

\* error?.message || fallback
MessageOr(message, fallback) == IF Truthy(message) THEN message.s ELSE fallback

\* the submission has returned r at instant now: the catch block of the
\* submission, or the token is kept and the polling loop entered.  civitaiInput
\* is the request in flight: nothing reads it once the call has returned
AfterSubmit(s0, r, now, lat) ==
    LET s == [s0 EXCEPT !.civitaiInput = NoInput]
    IN
    IF r.kind = "throw"
    THEN Finish(s, ReturnError("Civitai API Error: "
            \o MessageOr(r.message, "Unknown error submitting job to Civitai API")))
    ELSE LET resp == [s EXCEPT !.initialResponse = r]
         IN  IF ~HasToken(r)
             THEN Finish(resp, ReturnError("Civitai API Error: " \o McpMessage(NoTokenMessage)))
             ELSE LoopHead([resp EXCEPT !.jobToken = r.token, !.startTime = now], now, lat)


\* firstJob?.result?.available
Available(j) == j.kind = "job" /\ j.hasResult /\ j.available

\* a faulty variant: the else-if branch of the abandoned job is missing
ClassifyWithoutFailed(j) ==
    IF Available(j)
    THEN IF Truthy(j.blobUrl) THEN "Completed" ELSE "Inconsistent"
    ELSE "Pending"

\* a faulty variant: scheduled is tested first, a scheduled job is pending
ClassifyScheduledFirst(j) ==
    IF j.kind = "job" /\ j.scheduled THEN "Pending"
    ELSE IF Available(j)
         THEN IF Truthy(j.blobUrl) THEN "Completed" ELSE "Inconsistent"
         ELSE IF j.kind = "job" THEN "Failed" ELSE "Pending"

\* a faulty variant: firstJob is not tested in the else-if, a response without a
\* job record counts as a job that is not scheduled
ClassifyNoJobFailed(j) ==
    IF Available(j)
    THEN IF Truthy(j.blobUrl) THEN "Completed" ELSE "Inconsistent"
    ELSE IF ~(j.kind = "job" /\ j.scheduled) /\ ~Available(j) THEN "Failed" ELSE "Pending"

\* the branch the handler takes on the first job j of a status response
Classify(j) ==
    IF Available(j)
    THEN IF Truthy(j.blobUrl) THEN "Completed" ELSE "Inconsistent"
    ELSE IF j.kind = "job" /\ ~j.scheduled /\ ~Available(j) THEN "Failed" ELSE "Pending"

\* a faulty variant: the catch block returns a polling error for every error
PollCatchWrapsAll(s, isMcpError, message) ==
    Finish(s, ReturnError("Polling Error: "
        \o MessageOr(message, "Unknown error during job status polling")))

\* a faulty variant: the catch block throws every error again
PollCatchRethrowsAll(s, isMcpError, message) ==
    Finish(s, Throw(MessageOr(message, "Unknown error during job status polling")))

\* catch (pollError) of the polling loop: an McpError is thrown again, anything
\* else becomes a returned polling error
PollCatch(s, isMcpError, message) ==
    IF isMcpError
    THEN Finish(s, Throw(message.s))
    ELSE Finish(s, ReturnError("Polling Error: "
            \o MessageOr(message, "Unknown error during job status polling")))

\* a faulty variant: the download error is returned as a result
DownloadCatchReturns(s, message) ==
    Finish(s, ReturnError("Failed to download or save image from "
        \o Template(s.imageUrl) \o ": " \o Template(message)))

\* a faulty variant: the download error is swallowed and the loop goes on
\* polling
DownloadCatchRetries(s, message) ==
    [s EXCEPT !.pc = "sleep", !.nSleeps = @ + 1, !.due = s.due + pollIntervalMs]

\* catch (downloadError): wrapped in an McpError, which the catch of the polling
\* loop then receives
DownloadCatch(s, message) ==
    PollCatch(s, TRUE, Str("Failed to download or save image from "
        \o Template(s.imageUrl) \o ": " \o Template(message)))

\* The job is complete with a URL. index.ts: downloadAndSaveImage starts, with the
\* access() of ensureDirectoryExists
CompletedDownload(s, url) == [s EXCEPT !.imageUrl = url, !.pc = "access"]

\* part_000: the URL is returned
CompletedReturnUrl(s, url) ==
    Finish([s EXCEPT !.imageUrl = url], ReturnText("Image generated: " \o Template(url)))

\* a faulty variant: the delay is not awaited
SleepNotAwaited(s, now) == [s EXCEPT !.pc = "sleep", !.nSleeps = @ + 1, !.due = now]

\* a faulty variant: the deadline is tested before the delay, which is skipped
\* when the deadline has been reached
SleepChecksDeadline(s, now) ==
    IF now - s.startTime >= timeoutMs
    THEN Finish(s, Throw(TimeoutMessage))
    ELSE [s EXCEPT !.pc = "sleep", !.nSleeps = @ + 1, !.due = now + pollIntervalMs]

\* await delay(pollIntervalMs), started at instant now
Sleep(s, now) == [s EXCEPT !.pc = "sleep", !.nSleeps = @ + 1, !.due = now + pollIntervalMs]

\* the number of status queries the loop makes from elapsed time `elapsed` on when
\* every reading is pending and every query immediate
RECURSIVE TimeoutPolls(_, _, _)
TimeoutPolls(elapsed, interval, deadline) ==
    IF LoopCondition(elapsed, 0, deadline)
    THEN 1 + TimeoutPolls(elapsed + interval, interval, deadline)
    ELSE 0

\* the try block of the loop body from the reading on: j is the first job of the
\* status response received at instant now
OnReading(rev, s, j, now) ==
    CASE Classify(j) = "Completed" ->
            IF rev = "part_000"
            THEN CompletedReturnUrl(s, j.blobUrl)
            ELSE CompletedDownload(s, j.blobUrl)
      [] Classify(j) = "Inconsistent" -> PollCatch(s, TRUE, Str(NoUrlMessage))
      [] Classify(j) = "Failed" -> PollCatch(s, TRUE, Str(JobFailedMessage))
      [] OTHER -> Sleep(s, now)

\* a faulty variant: the deadline is tested again when the response arrives
AfterQueryTestsDeadline(rev, s, j, now) ==
    IF j.kind = "throw"
    THEN PollCatch([s EXCEPT !.reading = j], FALSE, j.message)
    ELSE IF ~LoopCondition(now, s.startTime, timeoutMs)
         THEN Finish([s EXCEPT !.reading = j], Throw(TimeoutMessage))
         ELSE OnReading(rev, [s EXCEPT !.reading = j], j, now)

\* the status query has returned j, or thrown, at instant now: one pass of the
\* loop body with its catch block
AfterQuery(rev, s, j, now) ==
    IF j.kind = "throw"
    THEN PollCatch([s EXCEPT !.reading = j], FALSE, j.message)
    ELSE OnReading(rev, [s EXCEPT !.reading = j], j, now)

\* a faulty variant: a missing directory is waited for, not created
AfterAccessWaits(s, exists) ==
    IF exists THEN [s EXCEPT !.pc = "get", !.nGets = @ + 1] ELSE s

\* ensureDirectoryExists after access(): access() resolved and axios.get is
\* called, or access() threw and mkdir is called
AfterAccess(s, exists) ==
    IF exists
    THEN [s EXCEPT !.pc = "get", !.nGets = @ + 1]
    ELSE [s EXCEPT !.pc = "mkdir", !.nMkdirs = @ + 1]

FsErrorMessages == {Str("EACCES: permission denied")}
HttpErrorMessages == {Str("Request failed with status code 404")}

\* mkdir(dirPath, { recursive: true }) has returned, or thrown
AfterMkdir(s, ok, message) ==
    IF ok THEN [s EXCEPT !.pc = "get", !.nGets = @ + 1] ELSE DownloadCatch(s, message)

\* a faulty variant: one file name for every image
LocalPathFixed(uuid) == OutputDir \o "/" \o "civitai_image.png"

\* path.join(this.outputDir, `civitai_${randomUUID()}.png`)
LocalPath(uuid) == OutputDir \o "/" \o "civitai_" \o uuid \o ".png"

\* a faulty variant: a failed fetch is thrown as an error of its own
AfterGetOwnError(s, ok, message, uuid, body) ==
    IF ok
    THEN [s EXCEPT !.pc = "write", !.imageBuffer = body, !.uuid = uuid,
                   !.localPath = LocalPath(uuid), !.nWrites = @ + 1]
    ELSE PollCatch(s, TRUE, Str("Failed to download image from "
            \o Template(s.imageUrl) \o ": " \o Template(message)))

\* axios.get has returned, or thrown: the file name is drawn and writeFile called
AfterGet(s, ok, message, uuid, body) ==
    IF ok
    THEN [s EXCEPT !.pc = "write", !.imageBuffer = body, !.uuid = uuid,
                   !.localPath = LocalPath(uuid), !.nWrites = @ + 1]
    ELSE DownloadCatch(s, message)

\* writeFile has opened the file and writes on, or the open was refused and the
\* promise is rejected
AfterOpen(s, ok, message) ==
    IF ok THEN [s EXCEPT !.pc = "writing"] ELSE Settled(s, "wrote", FALSE, message)

\* downloadAndSaveImage is left, by return or throw: its imageBuffer is no more
Left(s) == [s EXCEPT !.imageBuffer = NoBuffer]

\* a faulty variant: the outcome of writeFile is not awaited
AfterWriteUnchecked(s, ok, message) ==
    Finish(Left(s), ReturnText("{\"path\":\"" \o s.localPath \o "\"}"))

\* writeFile has returned, or thrown
AfterWrite(s, ok, message) ==
    IF ok THEN Finish(Left(s), ReturnText("{\"path\":\"" \o s.localPath \o "\"}"))
    ELSE DownloadCatch(Left(s), message)

-----------------------------------------------------------------------------
(* The actions *)

\* the time the status queries of s have taken up to the instant now: what has
\* passed since startTime less the sleeps
QueryTime(s, now) == now - s.startTime - s.nSleeps * pollIntervalMs

\* the latencies the next status query of s may have
Latencies(s, now) ==
    {1000 * k : k \in {l \in 0..MaxLatencySec :
                        QueryTime(s, now) + 1000 * l <= 1000 * MaxLatencySec}}

\* the awaits that take model time
Timed(q) == inv[q].pc \in {"submit", "query", "sleep"}
\* the await of p is the next to complete
IsNext(p) == \A q \in Procs : Timed(q) => inv[p].due <= inv[q].due

\* the tool calls arrive in the first MaxArrivalSec seconds
MaxArrivalSec == 2

\* the tool call p arrives: rejected by the schema, or the handler starts
Invoke(p) ==
    /\ inv[p].pc = "idle"
    /\ req[p] # NoRequest
    /\ clock <= 1000 * MaxArrivalSec
    /\ \E lat \in SubmitLatencies :
         inv' = [inv EXCEPT ![p] =
                    IF (IF revision = "part_000" THEN SchemaAcceptsUrlRevision(req[p])
                                                 ELSE SchemaAccepts(req[p]))
                    THEN StartSubmit(@, req[p], clock, lat)
                    ELSE Finish(@, Rejected)]
    /\ UNCHANGED <<revision, process, clock, req, dirExists, searchable, files>>

SubmitReturns(p) ==
    /\ inv[p].pc = "submit"
    /\ IsNext(p)
    /\ clock' = inv[p].due
    /\ \E r \in SubmitResponses(p), lat \in {1000 * k : k \in 0..MaxLatencySec} :
         inv' = [inv EXCEPT ![p] = AfterSubmit(@, r, clock', lat)]
    /\ req' = [req EXCEPT ![p] = NoRequest]
    /\ UNCHANGED <<revision, process, dirExists, searchable, files>>

QueryReturns(p) ==
    /\ inv[p].pc = "query"
    /\ IsNext(p)
    /\ clock' = inv[p].due
    /\ \E j \in StatusReadings :
         inv' = [inv EXCEPT ![p] = AfterQuery(revision, @, j, clock')]
    /\ UNCHANGED <<revision, process, req, dirExists, searchable, files>>

SleepReturns(p) ==
    /\ inv[p].pc = "sleep"
    /\ IsNext(p)
    /\ clock' = inv[p].due
    /\ \E lat \in Latencies(inv[p], clock') :
         inv' = [inv EXCEPT ![p] = LoopHead(@, clock', lat)]
    /\ UNCHANGED <<revision, process, req, dirExists, searchable, files>>

\* whether access(dirPath, F_OK) resolves: the directory exists and the path to it
\* can be searched (EACCES otherwise, ENOENT when it is missing)
AccessOutcome(exists, canSearch) == exists /\ canSearch

\* access() looks at the disk
AccessReads(p) ==
    /\ inv[p].pc = "access"
    /\ \E m \in FsErrorMessages :
         inv' = [inv EXCEPT ![p] =
                    Settled(@, "accessed", AccessOutcome(dirExists, searchable), m)]
    /\ UNCHANGED <<revision, process, clock, req, dirExists, searchable, files>>

\* await access() completes, with what access() saw: the directory may have
\* been created since
AccessReturns(p) ==
    /\ inv[p].pc = "accessed"
    /\ inv' = [inv EXCEPT ![p] = AfterAccess(@, @.io.ok)]
    /\ UNCHANGED <<revision, process, clock, req, dirExists, searchable, files>>

\* a faulty variant: without recursive, mkdir fails on a directory that exists
MkdirOutcomesNotRecursive(exists, canSearch) ==
    IF ~canSearch \/ exists THEN {FALSE} ELSE BOOLEAN

\* whether mkdir(dirPath, { recursive: true }) can succeed (TRUE) and fail
\* (FALSE): it fails when the path cannot be searched (EACCES), with recursive
\* it does not fail on a directory that exists and can be reached, and the
\* creation of a missing directory may fail
MkdirOutcomes(exists, canSearch) ==
    IF ~canSearch THEN {FALSE} ELSE IF exists THEN {TRUE} ELSE BOOLEAN

\* randomUUID() does not return a value it has returned before
FreshUuids == Uuids \ {inv[q].uuid : q \in Procs}

\* mkdir acts on the disk: the directory is there when it succeeds
MkdirRuns(p) ==
    /\ inv[p].pc = "mkdir"
    /\ \E ok \in MkdirOutcomes(dirExists, searchable), m \in FsErrorMessages :
         /\ inv' = [inv EXCEPT ![p] = Settled(@, "mkdired", ok, m)]
         /\ dirExists' = (dirExists \/ ok)
    /\ UNCHANGED <<revision, process, clock, req, searchable, files>>

\* await mkdir completes
MkdirReturns(p) ==
    /\ inv[p].pc = "mkdired"
    /\ inv' = [inv EXCEPT ![p] = AfterMkdir(@, @.io.ok, @.io.message)]
    /\ UNCHANGED <<revision, process, clock, req, dirExists, searchable, files>>

\* response.data of axios.get: a body when the request succeeded
GetBodies(ok) == IF ok THEN ImageBuffers ELSE {NoBuffer}

\* await axios.get completes
GetReturns(p) ==
    /\ inv[p].pc = "get"
    /\ \E ok \in BOOLEAN, m \in HttpErrorMessages, u \in FreshUuids :
         \E body \in GetBodies(ok) :
            inv' = [inv EXCEPT ![p] = AfterGet(@, ok, m, u, body)]
    /\ UNCHANGED <<revision, process, clock, req, dirExists, searchable, files>>

\* whether the file holds all of body once writeFile has opened it: only a body
\* of no bytes
CompleteWhenOpened(body) == body = "empty"

\* whether the write of body, into the file opened, can succeed (TRUE) and fail
\* (FALSE): writeFile writes nothing of a body of no bytes, and closes the file
WriteOutcomes(body) == IF body = "empty" THEN {TRUE} ELSE BOOLEAN

\* writeFile has opened localPath: the file is created, or emptied, and the write
\* of the bytes is pending; or the open failed and there is no file
WriteOpens(p) ==
    /\ inv[p].pc = "write"
    /\ \E ok \in BOOLEAN, m \in FsErrorMessages :
         /\ inv' = [inv EXCEPT ![p] = AfterOpen(@, ok, m)]
         /\ files' = IF ok
                     THEN {f \in files : f.path # inv[p].localPath}
                            \cup {[path |-> inv[p].localPath, from |-> inv[p].imageUrl,
                                   complete |-> CompleteWhenOpened(inv[p].imageBuffer)]}
                     ELSE files
    /\ UNCHANGED <<revision, process, clock, req, dirExists, searchable>>

\* writeFile has written: all bytes are in the file (of a body of no bytes they
\* were from the start), or the write failed and the file stays as it is,
\* incomplete
WriteCompletes(p) ==
    /\ inv[p].pc = "writing"
    /\ \E ok \in WriteOutcomes(inv[p].imageBuffer), m \in FsErrorMessages :
         /\ inv' = [inv EXCEPT ![p] = Settled(@, "wrote", ok, m)]
         /\ files' = IF ok
                     THEN {f \in files : f.path # inv[p].localPath}
                            \cup {[path |-> inv[p].localPath, from |-> inv[p].imageUrl,
                                   complete |-> TRUE]}
                     ELSE files
    /\ UNCHANGED <<revision, process, clock, req, dirExists, searchable>>

\* await writeFile completes
WriteReturns(p) ==
    /\ inv[p].pc = "wrote"
    /\ inv' = [inv EXCEPT ![p] = AfterWrite(@, @.io.ok, @.io.message)]
    /\ UNCHANGED <<revision, process, clock, req, dirExists, searchable, files>>

Next ==
    \E p \in Procs :
        \/ Invoke(p)
        \/ SubmitReturns(p)
        \/ QueryReturns(p)
        \/ SleepReturns(p)
        \/ AccessReads(p)
        \/ AccessReturns(p)
        \/ MkdirRuns(p)
        \/ MkdirReturns(p)
        \/ GetReturns(p)
        \/ WriteOpens(p)
        \/ WriteCompletes(p)
        \/ WriteReturns(p)

\* the path to the output directory at the start: a directory that exists may lie
\* under a parent the process may not search; a missing one under such a parent
\* is a missing directory whose mkdir fails
Searchable(exists) == IF exists THEN BOOLEAN ELSE {TRUE}

\* the environment of a deployed server; dir is its CIVITAI_OUTPUT_DIR
DeployedEnv(dir) ==
    [k \in ConfigKeys |->
        CASE k = "CIVITAI_API_TOKEN" -> Str("/env")
          [] k = "CIVITAI_MODEL_ID" -> ModelId
          [] OTHER -> dir]

\* the deployments: no output directory configured, or one given on the command line
Deployments ==
    {[args |-> <<>>, env |-> DeployedEnv(Undefined)],
     [args |-> <<"-e", "CIVITAI_OUTPUT_DIR", "/cli">>, env |-> DeployedEnv(Undefined)]}

\* one tool call with any arguments, the server being of one of the revisions revs
\* and running in one of the deployments
InitOf(revs) ==
    /\ revision \in revs
    /\ process \in {Main(revision, d.args, d.env) : d \in Deployments}
    /\ clock = 0
    /\ req \in {[p \in Procs |-> IF p = 1 THEN r ELSE NoRequest] : r \in Requests(revision)}
    /\ inv = [p \in Procs |-> IdleInv]
    /\ dirExists \in BOOLEAN
    /\ searchable \in Searchable(dirExists)
    /\ files = {}

\* the current revision
Init == InitOf({"index.ts"})
Spec == Init /\ [][Next]_vars

\* either revision
InitRevisions == InitOf({"index.ts", "part_000"})
SpecRevisions == InitRevisions /\ [][Next]_vars

\* two plain tool calls to one server of the current revision, which runs with
\* the default output directory
InitPair ==
    /\ revision = "index.ts"
    /\ process = Main(revision, <<>>, DeployedEnv(Undefined))
    /\ clock = 0
    /\ req = [p \in Procs |-> PlainCall(revision)]
    /\ inv = [p \in Procs |-> IdleInv]
    /\ dirExists \in BOOLEAN
    /\ searchable \in Searchable(dirExists)
    /\ files = {}

\* the service, for two concurrent calls: every submission returns its token;
\* a job is pending or complete with the same image, and it is complete at one
\* of its first MaxTerminalPolls readings or never; the status queries take no
\* time
MaxTerminalPolls == 2
PairResponses(p) == {r \in SubmitResponses(p) : r.kind = "object" /\ r.token = TokenOf(p)}
PairReadings(s) ==
    {j \in StatusReadings :
        /\ j.kind = "job" /\ j.scheduled
        /\ IF j.available
           THEN s.nQueries <= MaxTerminalPolls /\ j.blobUrl = Str("https://x/img.png")
           ELSE ~j.hasResult}

\* the submission, the status query and the delay under this service
SubmitReturnsPair(p) ==
    /\ inv[p].pc = "submit"
    /\ IsNext(p)
    /\ clock' = inv[p].due
    /\ \E r \in PairResponses(p) :
         inv' = [inv EXCEPT ![p] = AfterSubmit(@, r, clock', 0)]
    /\ req' = [req EXCEPT ![p] = NoRequest]
    /\ UNCHANGED <<revision, process, dirExists, searchable, files>>

QueryReturnsPair(p) ==
    /\ inv[p].pc = "query"
    /\ IsNext(p)
    /\ clock' = inv[p].due
    /\ \E j \in PairReadings(inv[p]) :
         inv' = [inv EXCEPT ![p] = AfterQuery(revision, @, j, clock')]
    /\ UNCHANGED <<revision, process, req, dirExists, searchable, files>>

SleepReturnsPair(p) ==
    /\ inv[p].pc = "sleep"
    /\ IsNext(p)
    /\ clock' = inv[p].due
    /\ inv' = [inv EXCEPT ![p] = LoopHead(@, clock', 0)]
    /\ UNCHANGED <<revision, process, req, dirExists, searchable, files>>

NextPair ==
    \E p \in Procs :
        \/ Invoke(p)
        \/ SubmitReturnsPair(p)
        \/ QueryReturnsPair(p)
        \/ SleepReturnsPair(p)
        \/ AccessReads(p)
        \/ AccessReturns(p)
        \/ MkdirRuns(p)
        \/ MkdirReturns(p)
        \/ GetReturns(p)
        \/ WriteOpens(p)
        \/ WriteCompletes(p)
        \/ WriteReturns(p)

SpecPair == InitPair /\ [][NextPair]_vars

\* the process starts: the top-level code runs
Boot ==
    /\ process.pc = "start"
    /\ process' = Main(revision, process.args, process.env)
    /\ UNCHANGED <<revision, clock, req, inv, dirExists, searchable, files>>

NextConfig == Boot

\* the start of the server under any command line and environment; no tool call
\* is served
InitConfig ==
    /\ revision \in {"index.ts", "part_000"}
    /\ process \in {NotStarted(a, e) : a \in ArgLists, e \in Envs}
    /\ clock = 0
    /\ req = [p \in Procs |-> NoRequest]
    /\ inv = [p \in Procs |-> IdleInv]
    /\ dirExists = FALSE
    /\ searchable = TRUE
    /\ files = {}

SpecConfig == InitConfig /\ [][NextConfig]_vars


\* one plain tool call to a server of the current revision, with no output
\* directory configured: the path of the directory has no part in how the
\* handler proceeds
InitLive ==
    /\ revision = "index.ts"
    /\ process = Main(revision, <<>>, DeployedEnv(Undefined))
    /\ clock = 0
    /\ req = [p \in Procs |-> IF p = 1 THEN PlainCall(revision) ELSE NoRequest]
    /\ inv = [p \in Procs |-> IdleInv]
    /\ dirExists \in BOOLEAN
    /\ searchable \in Searchable(dirExists)
    /\ files = {}

\* Every await of the handler completes: the tool call is delivered, every
\* network call and file operation resolves or rejects, the timer of delay fires
Fairness ==
    \A p \in Procs :
        /\ WF_vars(Invoke(p))
        /\ WF_vars(SubmitReturns(p))
        /\ WF_vars(QueryReturns(p))
        /\ WF_vars(SleepReturns(p))
        /\ WF_vars(AccessReads(p))
        /\ WF_vars(AccessReturns(p))
        /\ WF_vars(MkdirRuns(p))
        /\ WF_vars(MkdirReturns(p))
        /\ WF_vars(GetReturns(p))
        /\ WF_vars(WriteOpens(p))
        /\ WF_vars(WriteCompletes(p))
        /\ WF_vars(WriteReturns(p))

SpecLive == InitLive /\ [][Next]_vars /\ Fairness

\* a service that never returns a job record: every status response comes
\* without a first job
QueryReturnsNoJob(p) ==
    /\ inv[p].pc = "query"
    /\ IsNext(p)
    /\ clock' = inv[p].due
    /\ \E j \in {r \in StatusReadings : r.kind = "nojob"} :
         inv' = [inv EXCEPT ![p] = AfterQuery(revision, @, j, clock')]
    /\ UNCHANGED <<revision, process, req, dirExists, searchable, files>>

NextNoJob ==
    \E p \in Procs :
        \/ Invoke(p)
        \/ SubmitReturns(p)
        \/ QueryReturnsNoJob(p)
        \/ SleepReturns(p)

\* one plain tool call to a server of either revision
InitNoJob ==
    /\ revision \in {"index.ts", "part_000"}
    /\ process \in {Main(revision, d.args, d.env) : d \in Deployments}
    /\ clock = 0
    /\ req = [p \in Procs |-> IF p = 1 THEN PlainCall(revision) ELSE NoRequest]
    /\ inv = [p \in Procs |-> IdleInv]
    /\ dirExists \in BOOLEAN
    /\ searchable \in Searchable(dirExists)
    /\ files = {}

\* every await completes
FairnessNoJob ==
    \A p \in Procs :
        /\ WF_vars(Invoke(p))
        /\ WF_vars(SubmitReturns(p))
        /\ WF_vars(QueryReturnsNoJob(p))
        /\ WF_vars(SleepReturns(p))

SpecNoJob == InitNoJob /\ [][NextNoJob]_vars /\ FairnessNoJob

-----------------------------------------------------------------------------
(* Properties *)

\* Date.now() - startTime of invocation p
Elapsed(p) == clock - inv[p].startTime

\* the status queries of p so far took no time: p has spent its sleeps only
NoLatency(p) == Elapsed(p) = inv[p].nSleeps * pollIntervalMs

Polling(p) == inv[p].pc \in {"query", "sleep"}
Downloading(p) ==
    inv[p].pc \in {"access", "accessed", "mkdir", "mkdired", "get", "write", "writing", "wrote"}
Done(p) == inv[p].pc = "done"

\* the classes of a status reading, as the specification words them
HasUrl(j) == j.blobUrl.t = "string" /\ j.blobUrl.s # ""
IsAvailable(j) == j.kind = "job" /\ j.hasResult /\ j.available
ReadingClass(j) ==
    CASE IsAvailable(j) /\ HasUrl(j) -> "Completed"
      [] IsAvailable(j) /\ ~HasUrl(j) -> "Inconsistent"
      [] j.kind = "job" /\ ~j.scheduled /\ ~IsAvailable(j) -> "Failed"
      [] OTHER -> "Pending"

\* the last status reading of p is of this class
LastIs(p, class) ==
    inv[p].reading.kind \in {"nojob", "job"} /\ ReadingClass(inv[p].reading) = class
QueryThrew(p) == inv[p].reading.kind = "throw"

SuccessPath(p) == ReturnText("{\"path\":\"" \o inv[p].localPath \o "\"}")
SuccessUrl(p) == ReturnText("Image generated: " \o Template(inv[p].reading.blobUrl))
DownloadFailures(p) ==
    {Throw("Failed to download or save image from " \o Template(inv[p].reading.blobUrl)
            \o ": " \o m.s) : m \in FsErrorMessages \cup HttpErrorMessages}
\* the file of p is on disk, with all the bytes of its reading's URL
Written(p) ==
    [path |-> inv[p].localPath, from |-> inv[p].reading.blobUrl, complete |-> TRUE] \in files

\* ceil(a / b)
CeilDiv(a, b) == (a + b - 1) \div b

\* C1 as stated: once k pending readings were followed by a reading that is
\* available with a non-empty blobUrl, and k * interval < deadline, exactly k + 1
\* status queries were issued, the URL taken is that blobUrl, the elapsed time is
\* >= k * interval and < deadline, and the invocation ends in success.
C1_Original ==
    \A p \in Procs :
        (LastIs(p, "Completed") /\ inv[p].nSleeps * pollIntervalMs < timeoutMs) =>
            /\ inv[p].nQueries = inv[p].nSleeps + 1
            /\ inv[p].imageUrl = inv[p].reading.blobUrl
            /\ Elapsed(p) >= inv[p].nSleeps * pollIntervalMs
            /\ Elapsed(p) < timeoutMs
            /\ Done(p) => inv[p].result \in {SuccessPath(p), SuccessUrl(p)}

\* C1, amended: once k pending readings were followed by a reading that is
\* available with a non-empty blobUrl, exactly k + 1 status queries were issued,
\* the last of them started at an elapsed time >= k * interval and < deadline, the
\* URL that is downloaded (index.ts) or returned (part_000) is exactly that
\* blobUrl, and the reading is received at an elapsed time >= k * interval, which
\* is < deadline when the queries took no time.  part_000 ends in success with
\* the URL; index.ts ends in success with the path of the file written from that
\* URL when the download and the write succeed, and in the download error when
\* one of them fails.
C1_CompletedAfterPending ==
    \A p \in Procs :
        LastIs(p, "Completed") =>
            /\ inv[p].nQueries = inv[p].nSleeps + 1
            /\ inv[p].queryStart >= inv[p].nSleeps * pollIntervalMs
            /\ inv[p].queryStart < timeoutMs
            /\ inv[p].imageUrl = inv[p].reading.blobUrl
            /\ Elapsed(p) >= inv[p].nSleeps * pollIntervalMs
            /\ NoLatency(p) => Elapsed(p) < timeoutMs
            /\ Done(p) \/ Downloading(p)
            /\ (Done(p) /\ revision = "part_000") => inv[p].result = SuccessUrl(p)
            /\ (Done(p) /\ revision = "index.ts") =>
                    IF Written(p) THEN inv[p].result = SuccessPath(p)
                    ELSE inv[p].result \in DownloadFailures(p)

\* two pending readings, then the completed one: success on the third query, 4 s on
C1_Witness ==
    \E p \in Procs :
        /\ LastIs(p, "Completed") /\ Done(p)
        /\ inv[p].nSleeps = 2 /\ inv[p].nQueries = 3
        /\ NoLatency(p) /\ Elapsed(p) = 2 * pollIntervalMs
        /\ inv[p].result.via = "return" /\ ~inv[p].result.isError

PollsOf5sDeadline2sInterval == TimeoutPolls(0, 2000, 5000)
PollsOfHandler == TimeoutPolls(0, pollIntervalMs, timeoutMs)

\* C2: when every status query returns a pending reading and takes no time, the
\* timeout error is thrown after exactly ceil(deadline / interval) queries, the
\* last of them started one interval short of that many intervals and before the
\* deadline, none at the deadline or later; with a 5 s deadline and a 2 s interval
\* the loop makes 3 queries (at 0, 2 and 4 s).
C2_QueriesBeforeTimeout ==
    /\ \A p \in Procs :
        (inv[p].result = Throw(TimeoutMessage) /\ NoLatency(p)) =>
            /\ inv[p].nQueries = CeilDiv(timeoutMs, pollIntervalMs)
            /\ inv[p].queryStart = (inv[p].nQueries - 1) * pollIntervalMs
            /\ inv[p].queryStart < timeoutMs
            /\ Elapsed(p) >= timeoutMs
    /\ \A p \in Procs :
        (inv[p].pc = "query" /\ inv[p].queryStart = inv[p].nSleeps * pollIntervalMs) =>
            /\ inv[p].queryStart = (inv[p].nQueries - 1) * pollIntervalMs
            /\ inv[p].nQueries <= CeilDiv(timeoutMs, pollIntervalMs)
    /\ PollsOf5sDeadline2sInterval = 3
    /\ PollsOfHandler = CeilDiv(timeoutMs, pollIntervalMs)

\* the timeout is thrown after pending readings that took no time
C2_Witness ==
    \E p \in Procs :
        /\ inv[p].result = Throw(TimeoutMessage) /\ NoLatency(p)
        /\ inv[p].nQueries = 60 /\ LastIs(p, "Pending")

\* C3: (a) every status query is started at an elapsed time below the deadline;
\* (b) a terminal reading (Completed, Inconsistent, Failed) decides the outcome
\* whenever it arrives, at or after the deadline too: the loop is left at once, and
\* the outcome is that of the reading, never the timeout error, which is thrown
\* only after a pending reading.
C3_DeadlineGatesQueriesOnly ==
    \A p \in Procs :
        /\ inv[p].nQueries > 0 => (0 <= inv[p].queryStart /\ inv[p].queryStart < timeoutMs)
        /\ (LastIs(p, "Completed") \/ LastIs(p, "Inconsistent") \/ LastIs(p, "Failed")) =>
                /\ ~Polling(p)
                /\ inv[p].result # Throw(TimeoutMessage)
        /\ LastIs(p, "Inconsistent") => inv[p].result = Throw(NoUrlMessage)
        /\ LastIs(p, "Failed") => inv[p].result = Throw(JobFailedMessage)
        /\ (LastIs(p, "Completed") /\ Done(p)) =>
                inv[p].result \in {SuccessPath(p), SuccessUrl(p)} \cup DownloadFailures(p)
        /\ inv[p].result = Throw(TimeoutMessage) => LastIs(p, "Pending")

\* a terminal reading that arrives after the deadline and decides the outcome
C3_Witness ==
    \E p \in Procs :
        /\ LastIs(p, "Failed") /\ Elapsed(p) >= timeoutMs
        /\ inv[p].queryStart < timeoutMs
        /\ inv[p].result = Throw(JobFailedMessage)


\* the submission returned (it did not throw) and its response carries no token
NoTokenReturned(p) ==
    /\ inv[p].initialResponse.kind \in {"undefined", "object"}
    /\ inv[p].initialResponse.kind = "object" =>
            inv[p].initialResponse.token \in {Undefined, Null, Str("")}

\* C4: when the submission returns a response without a token (no response
\* object, or a token that is missing, null or empty), the invocation has ended
\* with the returned submission error, after one submission call and no status
\* query (and no download).
C4_NoTokenNoPolling ==
    \A p \in Procs :
        NoTokenReturned(p) =>
            /\ Done(p)
            /\ inv[p].result = ReturnError("Civitai API Error: " \o McpMessage(NoTokenMessage))
            /\ inv[p].nSubmits = 1
            /\ inv[p].nQueries = 0 /\ inv[p].queried = {}
            /\ inv[p].nSleeps = 0 /\ inv[p].nGets = 0

\* a response object whose token is the empty string
C4_Witness ==
    \E p \in Procs :
        /\ inv[p].initialResponse.kind = "object"
        /\ inv[p].initialResponse.token = Str("")
        /\ Done(p) /\ inv[p].result.isError

\* C5: when the last reading is available without a blobUrl, the invocation has
\* ended with the thrown inconsistent-result error: no sleep was started after
\* the reading (one sleep per earlier query), nothing was downloaded, and the
\* error is not the returned polling error of the loop's catch block.
C5_InconsistentFailsAtOnce ==
    \A p \in Procs :
        LastIs(p, "Inconsistent") =>
            /\ Done(p)
            /\ inv[p].result = Throw(NoUrlMessage)
            /\ inv[p].result.via # "return"
            /\ inv[p].nSleeps = inv[p].nQueries - 1
            /\ inv[p].nGets = 0 /\ inv[p].nWrites = 0 /\ inv[p].imageUrl = Undefined

\* available with an empty blobUrl on the second query
C5_Witness ==
    \E p \in Procs :
        /\ LastIs(p, "Inconsistent") /\ inv[p].reading.blobUrl = Str("")
        /\ inv[p].nQueries = 2 /\ Done(p)

\* C6: when the first job of the last reading is neither scheduled nor available,
\* the invocation has ended with the thrown job-failed error, which differs from
\* the timeout error; no sleep and no query follow the reading.
C6_FailedEndsLoop ==
    \A p \in Procs :
        LastIs(p, "Failed") =>
            /\ Done(p)
            /\ inv[p].result = Throw(JobFailedMessage)
            /\ inv[p].result # Throw(TimeoutMessage)
            /\ inv[p].nSleeps = inv[p].nQueries - 1
            /\ inv[p].nGets = 0

\* a job that is neither scheduled nor available, well before the deadline
C6_Witness ==
    \E p \in Procs :
        /\ LastIs(p, "Failed") /\ ~inv[p].reading.scheduled /\ inv[p].reading.hasResult
        /\ Elapsed(p) < timeoutMs - pollIntervalMs /\ Done(p)

\* C7: when a status query throws, the invocation has ended on that query with
\* the returned polling error (isError), whatever time remains: no sleep and no
\* query follow, and the result is neither the job-failed nor the timeout error.
C7_PollingErrorNotRetried ==
    \A p \in Procs :
        QueryThrew(p) =>
            /\ Done(p)
            /\ inv[p].result \in
                {ReturnError("Polling Error: " \o "Network Error"),
                 ReturnError("Polling Error: " \o "Unknown error during job status polling")}
            /\ inv[p].result \notin {Throw(JobFailedMessage), Throw(TimeoutMessage)}
            /\ inv[p].result.via # "throw"
            /\ inv[p].nSleeps = inv[p].nQueries - 1
            /\ inv[p].nGets = 0

\* the first query throws, with the whole deadline left
C7_Witness ==
    \E p \in Procs :
        /\ QueryThrew(p) /\ inv[p].nQueries = 1 /\ Elapsed(p) = 0
        /\ Done(p) /\ inv[p].result.isError

\* C8 as stated: the handler never throws; every failure is a returned result.
C8_Original == \A p \in Procs : inv[p].result.via # "throw"

\* the failure an ended invocation met, read from what it did
SubmissionFailed(p) == Done(p) /\ inv[p].nSubmits = 1 /\ inv[p].nQueries = 0
TimedOut(p) == Done(p) /\ LastIs(p, "Pending")
DownloadFailed(p) == Done(p) /\ LastIs(p, "Completed") /\ revision = "index.ts" /\ ~Written(p)

\* C8, amended: the handler returns a structured error result (isError) for a
\* submission error, a missing token and a polling transport error; for an
\* inconsistent result, a failed job, the timeout and a download or storage
\* failure it throws an McpError out of the handler.  Every failure is one or the
\* other, and a success is a returned result without isError.
C8_ReturnedOrThrown ==
    \A p \in Procs :
        /\ SubmissionFailed(p) => (inv[p].result.via = "return" /\ inv[p].result.isError)
        /\ QueryThrew(p) => (inv[p].result.via = "return" /\ inv[p].result.isError)
        /\ LastIs(p, "Inconsistent") => inv[p].result = Throw(NoUrlMessage)
        /\ LastIs(p, "Failed") => inv[p].result = Throw(JobFailedMessage)
        /\ TimedOut(p) => inv[p].result = Throw(TimeoutMessage)
        /\ DownloadFailed(p) => inv[p].result \in DownloadFailures(p)
        /\ (Done(p) /\ inv[p].result.via = "return" /\ ~inv[p].result.isError) =>
                /\ LastIs(p, "Completed")
                /\ revision = "index.ts" => Written(p)
        /\ (Done(p) /\ inv[p].result.via = "reject") => inv[p].nSubmits = 0
        /\ Done(p) => inv[p].result.via \in {"reject", "return", "throw"}

\* a failed write leaves the handler as a thrown error
C8_Witness ==
    \E p \in Procs :
        /\ DownloadFailed(p) /\ inv[p].nWrites = 1
        /\ inv[p].result.via = "throw"

\* the number v lies outside [lo, hi]
Outside(v, lo, hi) == v.t = "number" /\ (v.n < 2 * lo \/ v.n > 2 * hi)
\* the number v is a whole number that 8 does not divide
NotMultipleOf8(v) == v.t = "number" /\ v.n % 2 = 0 /\ (v.n \div 2) % 8 # 0

\* the arguments a have a field out of its range
OutOfRange(a) ==
    \/ Outside(a.steps, 1, 100)
    \/ Outside(a.cfgScale, 1, 30)
    \/ Outside(a.clipSkip, 1, 10)
    \/ Outside(a.width, 64, 1024) \/ NotMultipleOf8(a.width)
    \/ Outside(a.height, 64, 1024) \/ NotMultipleOf8(a.height)

\* C9: a tool call with steps outside [1,100], cfgScale outside [1,30], clipSkip
\* outside [1,10], or a width or height outside [64,1024] or not a multiple of 8
\* is rejected: once it has arrived the invocation has ended with the validation
\* failure, no submission and no status query was issued, and no input (clamped
\* or not) was built for the service.
C9_OutOfRangeRejected ==
    \A p \in Procs :
        (req[p] # NoRequest /\ OutOfRange(req[p]) /\ inv[p].pc # "idle") =>
            /\ Done(p)
            /\ inv[p].result = Rejected
            /\ inv[p].nSubmits = 0 /\ inv[p].nQueries = 0 /\ inv[p].nGets = 0
            /\ inv[p].civitaiInput = NoInput

\* a width in range that is not a multiple of 8, and steps above the range
C9_Witness ==
    \E p \in Procs :
        /\ req[p] # NoRequest /\ Done(p) /\ inv[p].result = Rejected
        /\ req[p].width = Num(68) /\ req[p].steps = Num(101)

\* the whole number v lies in [lo, hi]
Within(v, lo, hi) == v.t = "number" /\ v.n % 2 = 0 /\ 2 * lo <= v.n /\ v.n <= 2 * hi
\* the value sent for an argument given as v whose default is d
SentFor(v, d) == IF v = Undefined THEN d ELSE v

\* C10: the parameters of a submission call in flight have steps in [1,100],
\* cfgScale in [1,30], clipSkip in [1,10], width and height in [64,1024] and
\* multiples of 8; an omitted field is sent as its default (steps 20, cfgScale 7,
\* width 512, height 768, clipSkip 2), an omitted seed as -1, and a field that was
\* given is sent as given.
C10_SentParameters ==
    \A p \in Procs :
        inv[p].pc = "submit" =>
            LET sent == inv[p].civitaiInput
                a == req[p]
            IN  /\ Within(sent.steps, 1, 100)
                /\ sent.cfgScale.t = "number"
                /\ 2 * 1 <= sent.cfgScale.n /\ sent.cfgScale.n <= 2 * 30
                /\ Within(sent.clipSkip, 1, 10)
                /\ Within(sent.width, 64, 1024) /\ ~NotMultipleOf8(sent.width)
                /\ Within(sent.height, 64, 1024) /\ ~NotMultipleOf8(sent.height)
                /\ sent.steps = SentFor(a.steps, Num(20))
                /\ sent.cfgScale = SentFor(a.cfgScale, Num(7))
                /\ sent.width = SentFor(a.width, Num(512))
                /\ sent.height = SentFor(a.height, Num(768))
                /\ sent.clipSkip = SentFor(a.clipSkip, Num(2))
                /\ sent.seed = SentFor(a.seed, Num(-1))
                /\ sent.prompt = a.prompt

\* a call that gives a width and omits the rest: the width goes out as given,
\* the others as their defaults and the seed as -1
C10_Witness ==
    \E p \in Procs :
        /\ inv[p].pc = "submit"
        /\ req[p].width = Num(1024) /\ req[p].seed = Undefined /\ req[p].steps = Undefined
        /\ inv[p].civitaiInput.width = Num(1024)
        /\ inv[p].civitaiInput.seed = Num(-1)
        /\ inv[p].civitaiInput.steps = Num(20)

-----------------------------------------------------------------------------
(* The prompt, the stages of a success, the download, the output directory *)

\* the tool call p has arrived
Arrived(p) == req[p] # NoRequest /\ inv[p].pc # "idle"

\* every optional field of the arguments a is omitted or within its range
OptionsValid(a) ==
    /\ a.steps = Undefined \/ Within(a.steps, 1, 100)
    /\ a.cfgScale = Undefined
        \/ (a.cfgScale.t = "number" /\ 2 * 1 <= a.cfgScale.n /\ a.cfgScale.n <= 2 * 30)
    /\ a.clipSkip = Undefined \/ Within(a.clipSkip, 1, 10)
    /\ a.width = Undefined \/ (Within(a.width, 64, 1024) /\ ~NotMultipleOf8(a.width))
    /\ a.height = Undefined \/ (Within(a.height, 64, 1024) /\ ~NotMultipleOf8(a.height))
    /\ a.seed = Undefined \/ (a.seed.t = "number" /\ a.seed.n % 2 = 0)

\* C11 as stated: a tool call whose prompt is the empty string is rejected with
\* the validation failure, and no submission call is made.
C11_Original ==
    \A p \in Procs :
        (Arrived(p) /\ req[p].prompt = Str("")) =>
            /\ Done(p) /\ inv[p].result = Rejected
            /\ inv[p].nSubmits = 0

\* C11, amended: a tool call without a prompt (or whose prompt is not a string)
\* is rejected with the validation failure and no submission call is made; the
\* empty string is a string, so a tool call whose prompt is "" and whose options
\* are valid is not rejected: it is submitted, with the prompt "" as given.
C11_PromptRequired ==
    \A p \in Procs :
        Arrived(p) =>
            /\ req[p].prompt.t # "string" =>
                    /\ Done(p) /\ inv[p].result = Rejected
                    /\ inv[p].nSubmits = 0 /\ inv[p].civitaiInput = NoInput
            /\ (req[p].prompt = Str("") /\ OptionsValid(req[p])) =>
                    /\ inv[p].pc = "submit" /\ inv[p].nSubmits = 1
                    /\ inv[p].result # Rejected
                    /\ inv[p].civitaiInput.prompt = Str("")

\* the empty prompt is on its way to the service
C11_Witness ==
    \E p \in Procs :
        /\ req[p].prompt = Str("") /\ inv[p].pc = "submit"
        /\ inv[p].civitaiInput.prompt = Str("") /\ inv[p].civitaiInput.steps = Num(20)

\* the invocation p has ended in a success result
Succeeded(p) == inv[p].result.via = "return" /\ ~inv[p].result.isError

\* C12: an invocation that has ended in a success result went through every
\* stage: its submission returned a token, its last status reading is available
\* with a URL, and in index.ts the image was fetched and the file written, the
\* result being the path of that file (in part_000 the result is the URL and
\* nothing is fetched).  An invocation has a result exactly when it has ended,
\* and its result never changes afterwards: one outcome, a success or a failure.
C12_AllStagesOrFailure ==
    /\ [](\A p \in Procs :
            /\ Succeeded(p) =>
                /\ inv[p].initialResponse.kind = "object"
                /\ inv[p].initialResponse.token = TokenOf(p)
                /\ inv[p].nSubmits = 1 /\ inv[p].nQueries >= 1
                /\ LastIs(p, "Completed")
                /\ revision = "index.ts" =>
                        /\ inv[p].nGets = 1 /\ inv[p].nWrites = 1
                        /\ dirExists /\ Written(p)
                        /\ inv[p].result = SuccessPath(p)
                /\ revision = "part_000" =>
                        /\ inv[p].result = SuccessUrl(p)
                        /\ inv[p].nGets = 0 /\ files = {}
            /\ Done(p) <=> inv[p].result # NoResult
            /\ Done(p) => inv[p].result.via \in {"reject", "return", "throw"}
            /\ (inv[p].result.via = "return" /\ inv[p].result.isError) => ~Written(p))
    /\ [][\A p \in Procs : Done(p) => inv'[p] = inv[p]]_vars

\* a success whose directory had to be created on the way
C12_Witness ==
    \E p \in Procs :
        /\ Succeeded(p) /\ inv[p].result = SuccessPath(p)
        /\ inv[p].nMkdirs = 1 /\ inv[p].nWrites = 1 /\ Written(p)

\* where the materialization of p failed
FailedAtMkdir(p) == DownloadFailed(p) /\ inv[p].nMkdirs = 1 /\ inv[p].nGets = 0
FailedAtGet(p) == DownloadFailed(p) /\ inv[p].nGets = 1 /\ inv[p].nWrites = 0
FailedAtWrite(p) == DownloadFailed(p) /\ inv[p].nWrites = 1

\* the one error of the materialization, with the message of its cause
DownloadOrSaveError(p, causes) ==
    {Throw("Failed to download or save image from " \o Template(inv[p].reading.blobUrl)
            \o ": " \o m.s) : m \in causes}

\* C13 as stated: a failed fetch and a failed directory creation or file write
\* are reported as errors of two kinds: whatever the cause, what the handler
\* makes of a failed axios.get differs from what it makes of a failed mkdir and
\* of a failed writeFile with that cause.
C13_Original ==
    \A p \in Procs :
        Downloading(p) =>
            \A m \in FsErrorMessages \cup HttpErrorMessages, u \in Uuids :
                /\ AfterGet(inv[p], FALSE, m, u, "bytes").result # AfterMkdir(inv[p], FALSE, m).result
                /\ AfterGet(inv[p], FALSE, m, u, "bytes").result # AfterWrite(inv[p], FALSE, m).result

\* C13, amended: the materialization reports one kind of failure: a failed
\* fetch, a failed directory creation and a failed file write each end the
\* invocation in the same thrown McpError(InternalError), "Failed to download or
\* save image from <url>: <cause>"; the three differ only in the message of the
\* cause that is appended.
C13_OneDownloadOrSaveError ==
    \A p \in Procs :
        /\ FailedAtMkdir(p) => inv[p].result \in DownloadOrSaveError(p, FsErrorMessages)
        /\ FailedAtGet(p) => inv[p].result \in DownloadOrSaveError(p, HttpErrorMessages)
        /\ FailedAtWrite(p) => inv[p].result \in DownloadOrSaveError(p, FsErrorMessages)
        /\ DownloadFailed(p) => (FailedAtMkdir(p) \/ FailedAtGet(p) \/ FailedAtWrite(p))

\* a fetch that failed after the directory was created
C13_Witness ==
    \E p \in Procs :
        /\ FailedAtGet(p) /\ inv[p].nMkdirs = 1
        /\ inv[p].result \in DownloadOrSaveError(p, HttpErrorMessages)

\* -e CIVITAI_OUTPUT_DIR is not on the command line
NotOnCommandLine(key) ==
    \A i \in 1..Len(process.args) :
        ~(process.args[i] = "-e" /\ i + 1 <= Len(process.args) /\ process.args[i + 1] = key)
\* CIVITAI_OUTPUT_DIR is given neither with -e nor in the environment
NoOutputDirConfigured ==
    /\ NotOnCommandLine("CIVITAI_OUTPUT_DIR")
    /\ process.env["CIVITAI_OUTPUT_DIR"] = Undefined

\* C14 as stated: with no output directory configured, a completed job ends the
\* invocation in the URL, unchanged, with no download and no file written.
C14_Original ==
    \A p \in Procs :
        (NoOutputDirConfigured /\ LastIs(p, "Completed")) =>
            /\ Done(p) /\ inv[p].result = SuccessUrl(p)
            /\ inv[p].nGets = 0 /\ files = {}

\* C14, amended: index.ts has no pass-through mode.  With no output directory
\* configured it uses ./civitai_output under the working directory: a completed
\* job is downloaded, and its success is the path of the file written in that
\* directory, never the URL.  Only part_000, which has no output directory
\* setting, returns the URL unchanged, with no download and no file written.
C14_DefaultDirectory ==
    \A p \in Procs :
        (NoOutputDirConfigured /\ LastIs(p, "Completed")) =>
            /\ revision = "part_000" =>
                    /\ Done(p) /\ inv[p].result = SuccessUrl(p)
                    /\ inv[p].nMkdirs = 0 /\ inv[p].nGets = 0 /\ files = {}
            /\ revision = "index.ts" =>
                    /\ Downloading(p) \/ Done(p)
                    /\ inv[p].result # SuccessUrl(p)
                    /\ (Done(p) /\ Succeeded(p)) =>
                            /\ inv[p].result =
                                ReturnText("{\"path\":\"" \o "/srv/civitai_output/civitai_"
                                            \o inv[p].uuid \o ".png" \o "\"}")
                            /\ [path |-> "/srv/civitai_output/civitai_" \o inv[p].uuid \o ".png",
                                from |-> inv[p].reading.blobUrl, complete |-> TRUE] \in files

\* no directory configured: the image is saved under ./civitai_output
C14_Witness ==
    \E p \in Procs :
        /\ NoOutputDirConfigured /\ revision = "index.ts"
        /\ LastIs(p, "Completed") /\ Succeeded(p)
        /\ inv[p].localPath = "/srv/civitai_output/civitai_uuid-a.png" /\ Written(p)

-----------------------------------------------------------------------------
(* Two invocations; the polling constants; the configuration *)

\* C15: two invocations that both ended in success hold two distinct local
\* paths, also when both fetched the same URL into the same directory, and each
\* path names a file written from that invocation's URL; a file that has been
\* written is never replaced or removed by another materialization, and no file
\* that is on disk, complete or not, disappears.
C15_DistinctPaths ==
    /\ [](\A p, q \in Procs :
            (p # q /\ Succeeded(p) /\ Succeeded(q)) =>
                /\ inv[p].localPath # inv[q].localPath
                /\ inv[p].result # inv[q].result
                /\ Written(p) /\ Written(q)
                /\ Cardinality(files) = 2)
    /\ [][\A f \in files :
            /\ f.complete => f \in files'
            /\ \E g \in files' : g.path = f.path /\ g.from = f.from]_vars

\* two successes on the same image, in the same directory
C15_Witness ==
    \E p, q \in Procs :
        /\ p # q /\ Succeeded(p) /\ Succeeded(q)
        /\ inv[p].imageUrl = inv[q].imageUrl
        /\ inv[p].localPath = LocalPath("uuid-a") /\ inv[q].localPath = LocalPath("uuid-b")
        /\ Cardinality(files) = 2

\* p has come through ensureDirectoryExists
Ensured(p) == inv[p].nGets >= 1

\* the file system call of p acts on the disk in this step and leaves p at pc
Settles(p, from, pc) == inv[p].pc = from /\ inv'[p].pc = pc
\* the await of p at pc completes in this step
Resumes(p, pc) == inv[p].pc = pc /\ inv'[p] # inv[p]

\* C16: ensureDirectoryExists does not fail because the directory exists, in any
\* interleaving of two invocations.  An invocation whose access() found the
\* directory missing calls mkdir, also when another invocation has created the
\* directory since; a mkdir that runs when the directory is there and can be
\* reached is fulfilled, and only a mkdir that ran on a missing or unreachable
\* directory is rejected; an invocation whose access() or mkdir was fulfilled
\* goes on to the download without an error.  The directory is never removed,
\* and whenever an invocation has come through ensureDirectoryExists the
\* directory exists.
C16_EnsureDirectoryIdempotent ==
    /\ [](\A p \in Procs :
            /\ Ensured(p) => (dirExists /\ searchable)
            /\ (inv[p].pc = "mkdired" /\ inv[p].io.ok) => dirExists
            /\ (inv[p].pc = "accessed" /\ inv[p].io.ok) => dirExists)
    /\ [][/\ dirExists => dirExists'
          /\ \A p \in Procs :
                /\ (Settles(p, "mkdir", "mkdired") /\ dirExists /\ searchable) =>
                        inv'[p].io.ok
                /\ (Settles(p, "mkdir", "mkdired") /\ ~inv'[p].io.ok) =>
                        (~dirExists \/ ~searchable)
                /\ (Settles(p, "access", "accessed") /\ dirExists /\ searchable) =>
                        inv'[p].io.ok
                /\ ((Resumes(p, "accessed") \/ Resumes(p, "mkdired")) /\ inv[p].io.ok) =>
                        (inv'[p].pc = "get" /\ inv'[p].result = NoResult)
                /\ (Resumes(p, "accessed") /\ ~inv[p].io.ok) =>
                        (inv'[p].pc = "mkdir" /\ inv'[p].result = NoResult)]_vars

\* both invocations found the directory missing, both called mkdir, and both
\* came through
C16_Witness ==
    \E p, q \in Procs :
        /\ p # q /\ inv[p].nMkdirs = 1 /\ inv[q].nMkdirs = 1
        /\ inv[p].pc = "get" /\ inv[q].pc = "get" /\ dirExists
        /\ inv[p].result = NoResult /\ inv[q].result = NoResult

\* C17: two concurrent invocations are independent: each queries its own token
\* only, each measures the deadline from its own start (its queries start at an
\* elapsed time of its own below the deadline, one interval apart, and it times
\* out after the 60 queries it makes alone, when its own 120 s are over), and
\* each ends as it would alone on the same responses: in the path of the file
\* written from its own reading, in the download error, or in the timeout after
\* pending readings.
C17_Independent ==
    \A p \in Procs :
        /\ inv[p].queried \subseteq {TokenOf(p)}
        /\ inv[p].jobToken \in {Undefined, TokenOf(p)}
        /\ inv[p].nQueries > 0 =>
                /\ inv[p].queryStart = (inv[p].nQueries - 1) * pollIntervalMs
                /\ inv[p].queryStart < timeoutMs
        /\ inv[p].pc = "query" => inv[p].due = inv[p].startTime + inv[p].queryStart
        /\ inv[p].pc = "sleep" => inv[p].due = inv[p].startTime + inv[p].nSleeps * pollIntervalMs
        /\ inv[p].result = Throw(TimeoutMessage) =>
                /\ inv[p].nQueries = CeilDiv(timeoutMs, pollIntervalMs)
                /\ Elapsed(p) >= timeoutMs
                /\ LastIs(p, "Pending")
        /\ (Done(p) /\ inv[p].nSubmits = 1) =>
                IF LastIs(p, "Completed")
                THEN IF Written(p) THEN inv[p].result = SuccessPath(p)
                     ELSE inv[p].result \in DownloadFailures(p)
                ELSE inv[p].result = Throw(TimeoutMessage)

\* two invocations that started 2 s apart and both timed out
C17_Witness ==
    \E p, q \in Procs :
        /\ inv[p].result = Throw(TimeoutMessage) /\ inv[q].result = Throw(TimeoutMessage)
        /\ inv[q].startTime = inv[p].startTime + 2000
        /\ inv[p].nQueries = 60 /\ inv[q].nQueries = 60

\* C18: index.ts checks the status every 2 seconds and gives up after 2 minutes:
\* the sleep after a pending reading ends 2000 ms after the reading, no status
\* query starts at an elapsed time of 120000 ms or more, and the timeout error,
\* which names the 120 second limit, is thrown at an elapsed time of 120000 ms
\* or more, after 60 queries when the queries take no time.
C18_TwoSecondsTwoMinutes ==
    \A p \in Procs :
        /\ inv[p].pc = "sleep" => (inv[p].due - clock = 2000 /\ LastIs(p, "Pending"))
        /\ inv[p].nQueries > 0 => inv[p].queryStart < 120000
        /\ inv[p].nQueries > 0 => inv[p].queryStart >= 2000 * (inv[p].nQueries - 1)
        /\ (Done(p) /\ LastIs(p, "Pending")) =>
                /\ inv[p].result =
                    Throw("Polling timed out: Civitai job did not complete within the "
                            \o "120 second limit.")
                /\ Elapsed(p) >= 120000
                /\ NoLatency(p) => (inv[p].nQueries = 60 /\ Elapsed(p) = 120000)

\* the sleep that ends at the deadline: the 60th, 118 s on
C18_Witness ==
    \E p \in Procs :
        /\ inv[p].pc = "sleep" /\ inv[p].nSleeps = 60
        /\ clock - inv[p].startTime = 118000
        /\ inv[p].due - inv[p].startTime = 120000

\* C19 as stated: part_000 checks the status every 2 seconds and times out after
\* 5 minutes: no timeout error before 300000 ms have elapsed.
C19_Original ==
    \A p \in Procs :
        revision = "part_000" =>
            /\ inv[p].pc = "sleep" => inv[p].due - clock = 2000
            /\ inv[p].result = Throw(TimeoutMessage) => Elapsed(p) >= 5 * 60 * 1000

\* the command line is made of -e KEY VALUE triples, KEY a configuration key
WellFormed(args) ==
    /\ Len(args) % 3 = 0
    /\ \A i \in 1..Len(args) :
        /\ i % 3 = 1 => args[i] = "-e"
        /\ i % 3 = 2 => args[i] \in ConfigKeys
\* the values given to key with -e
CliValues(key) ==
    {process.args[i + 2] : i \in {j \in 1..Len(process.args) :
        j % 3 = 1 /\ j + 2 <= Len(process.args) /\ process.args[j + 1] = key}}
\* the value the running server uses for key
Effective(key) ==
    CASE key = "CIVITAI_API_TOKEN" -> process.apiKey
      [] key = "CIVITAI_MODEL_ID" -> process.modelId
      [] key = "CIVITAI_OUTPUT_DIR" -> Str(process.outputDir)
\* the value VALUE, as the server would keep it for key
Kept(key, value) == IF key = "CIVITAI_OUTPUT_DIR" THEN Str(Resolve(value)) ELSE Str(value)

\* C20 as stated: in a running server of index.ts, a key given on the command
\* line as -e KEY VALUE has the value VALUE, whatever the environment and also
\* when VALUE is empty; the environment is used only for a key that is not on
\* the command line.
C20_Original ==
    (process.pc = "running" /\ revision = "index.ts" /\ WellFormed(process.args)) =>
        \A key \in ConfigKeys :
            CliValues(key) # {} =>
                \E value \in CliValues(key) : Effective(key) = Kept(key, value)

\* C21 as stated: after a pending reading the deadline is tested before the
\* sleep: no sleep is started at an elapsed time that has reached the deadline,
\* the loop ends in the timeout instead.
C21_Original ==
    \A p \in Procs :
        /\ inv[p].pc = "sleep" => Elapsed(p) < timeoutMs
        /\ (LastIs(p, "Pending") /\ ~Polling(p)) => inv[p].result = Throw(TimeoutMessage)

\* the status query of p returns in this step, with a pending reading
PendingReceived(p) ==
    /\ inv[p].pc = "query" /\ inv'[p].pc # "query"
    /\ inv'[p].reading.kind \in {"nojob", "job"}
    /\ ReadingClass(inv'[p].reading) = "Pending"
\* the sleep of p ends in this step
SleepEnds(p) == inv[p].pc = "sleep" /\ inv'[p] # inv[p]

\* C21, amended: the deadline is tested at the head of the loop only, before the
\* status query and after the sleep.  A pending reading is followed by a sleep of
\* one interval whatever the elapsed time, also when the deadline has been
\* reached; when the sleep ends, the next query is issued if the elapsed time is
\* below the deadline, and the timeout error is thrown otherwise, so the timeout
\* comes one whole interval after the last reading.
C21_DeadlineTestedAfterSleep ==
    /\ [](\A p \in Procs :
            /\ inv[p].pc = "sleep" =>
                    /\ LastIs(p, "Pending")
                    /\ inv[p].nSleeps = inv[p].nQueries
                    /\ inv[p].due = clock + pollIntervalMs
            /\ inv[p].result = Throw(TimeoutMessage) =>
                    /\ inv[p].nSleeps = inv[p].nQueries
                    /\ Elapsed(p) >= timeoutMs
                    /\ Elapsed(p) >= inv[p].queryStart + pollIntervalMs)
    /\ [][\A p \in Procs :
            /\ PendingReceived(p) =>
                    /\ inv'[p].pc = "sleep"
                    /\ inv'[p].nSleeps = inv[p].nSleeps + 1
                    /\ inv'[p].due = clock' + pollIntervalMs
            /\ SleepEnds(p) =>
                    /\ clock' = inv[p].due
                    /\ IF clock' - inv[p].startTime < timeoutMs
                       THEN inv'[p].pc = "query" /\ inv'[p].nQueries = inv[p].nQueries + 1
                       ELSE inv'[p].result = Throw(TimeoutMessage)]_vars

\* a pending reading received when the deadline has been reached: the sleep is
\* started all the same
C21_Witness ==
    \E p \in Procs :
        /\ inv[p].pc = "sleep" /\ LastIs(p, "Pending")
        /\ Elapsed(p) >= timeoutMs
        /\ inv[p].due = clock + pollIntervalMs

\* the stage of p that is awaited fails in this step: the invocation goes from
\* running to an error result
FailsNow(p) ==
    /\ inv[p].result = NoResult /\ inv[p].pc \notin {"idle", "done"}
    /\ inv'[p].result # NoResult
    /\ inv'[p].result.isError \/ inv'[p].result.via = "throw"
\* the calls p has issued: network calls and file operations
Calls(s) == <<s.nSubmits, s.nQueries, s.nMkdirs, s.nGets, s.nWrites>>

\* C22: nothing is retried in one invocation.  At most one submission, one
\* mkdir, one download and one file write are issued.  A failure of any stage
\* (submission, status query, inconsistent or failed reading, directory creation,
\* download, file write) ends the invocation in the same step, without another
\* call, and an invocation that has ended issues no call and changes no more.
\* A download in progress or failed never leads back to a status query or a
\* sleep.  The only step that is repeated is the status query, and every query
\* but the first follows a sleep after a pending reading.
C22_NothingRetried ==
    /\ [](\A p \in Procs :
            /\ inv[p].nSubmits <= 1 /\ inv[p].nMkdirs <= 1
            /\ inv[p].nGets <= 1 /\ inv[p].nWrites <= 1
            /\ inv[p].nSleeps \in {inv[p].nQueries - 1, inv[p].nQueries} \cup {0}
            /\ (inv[p].result.isError \/ inv[p].result.via = "throw") => Done(p)
            /\ (QueryThrew(p) \/ LastIs(p, "Inconsistent") \/ LastIs(p, "Failed")) =>
                    /\ Done(p)
                    /\ inv[p].nMkdirs = 0 /\ inv[p].nGets = 0 /\ inv[p].nWrites = 0
            /\ LastIs(p, "Completed") => ~Polling(p))
    /\ [][\A p \in Procs :
            /\ FailsNow(p) => (Done(p)' /\ Calls(inv'[p]) = Calls(inv[p]))
            /\ Done(p) => (inv'[p] = inv[p] /\ files' = files /\ dirExists' = dirExists)
            /\ Downloading(p) =>
                    /\ inv'[p].nQueries = inv[p].nQueries
                    /\ inv'[p].nSleeps = inv[p].nSleeps
                    /\ inv'[p].nSubmits = inv[p].nSubmits
                    /\ Downloading(p)' \/ Done(p)'
            /\ inv'[p].nQueries > inv[p].nQueries =>
                    /\ inv'[p].nQueries = inv[p].nQueries + 1
                    /\ inv[p].nQueries >= 1 =>
                            (inv[p].pc = "sleep" /\ LastIs(p, "Pending"))]_vars

\* a file write that fails after one pending and one completed reading: one
\* submission, two queries, one download, one write, and the invocation has ended
C22_Witness ==
    \E p \in Procs :
        /\ Done(p) /\ inv[p].result \in DownloadFailures(p)
        /\ Calls(inv[p]) = <<1, 2, 0, 1, 1>>
        /\ inv[p].nSleeps = 1

\* the outcomes of an invocation, as the specification names them
SubmissionFailures ==
    {ReturnError("Civitai API Error: " \o m) :
        m \in {"Network Error", "Unknown error submitting job to Civitai API",
               McpMessage(NoTokenMessage)}}
PollingErrors ==
    {ReturnError("Polling Error: " \o m) :
        m \in {"Network Error", "Unknown error during job status polling"}}
Outcomes(p) ==
    [success |-> Succeeded(p),
     submissionFailure |-> inv[p].result \in SubmissionFailures,
     pollingError |-> inv[p].result \in PollingErrors,
     inconsistent |-> inv[p].result = Throw(NoUrlMessage),
     failed |-> inv[p].result = Throw(JobFailedMessage),
     timedOut |-> inv[p].result = Throw(TimeoutMessage),
     downloadFailure |-> inv[p].result \in DownloadFailures(p)]
ExactlyOneOutcome(p) ==
    Cardinality({o \in DOMAIN Outcomes(p) : Outcomes(p)[o]}) = 1
\* the handler of p has been entered
Entered(p) == inv[p].nSubmits > 0

\* C23 as stated: when every call returns, every invocation ends in exactly one
\* of the seven outcomes, no status query follows the outcome, and an invocation
\* that is still polling ends no later than the deadline: nothing is polling at
\* an elapsed time past the deadline and the timeout is reported at the deadline.
C23_Original ==
    /\ \A p \in Procs : Entered(p) ~> Done(p)
    /\ [](\A p \in Procs :
            /\ (Entered(p) /\ Done(p)) => ExactlyOneOutcome(p)
            /\ Polling(p) => inv[p].due - inv[p].startTime <= timeoutMs
            /\ inv[p].result = Throw(TimeoutMessage) => Elapsed(p) <= timeoutMs)
    /\ [][\A p \in Procs : Done(p) => inv'[p].nQueries = inv[p].nQueries]_vars

\* C23, amended: when every call returns, every invocation ends in exactly one
\* of the seven outcomes and no status query follows the outcome.  The deadline
\* bounds the polling at the head of the loop: no query starts at an elapsed time
\* that has reached the deadline, and the invocation ends when a sleep ends at or
\* after the deadline; a query in flight and the sleep after it are not cut
\* short, so with queries that take L altogether an invocation may be polling
\* until deadline + L + interval.
C23_Terminates ==
    /\ \A p \in Procs : Entered(p) ~> Done(p)
    /\ [](\A p \in Procs :
            /\ (Entered(p) /\ Done(p)) => ExactlyOneOutcome(p)
            /\ (Entered(p) /\ ~Done(p)) => inv[p].result = NoResult
            /\ inv[p].pc = "query" => inv[p].queryStart < timeoutMs
            /\ Polling(p) => inv[p].due - inv[p].startTime
                                <= timeoutMs + 1000 * MaxLatencySec + pollIntervalMs)
    /\ [][\A p \in Procs :
            /\ Done(p) => inv'[p].nQueries = inv[p].nQueries
            /\ (SleepEnds(p) /\ clock' - inv[p].startTime >= timeoutMs) => Done(p)']_vars

\* an invocation that was polling past the deadline and ended in the timeout
C23_Witness ==
    \E p \in Procs :
        /\ Entered(p) /\ Done(p) /\ Outcomes(p).timedOut
        /\ Elapsed(p) > timeoutMs

\* the class of a reading by the four attributes, as C24 tabulates it
ClassOf(present, scheduled, available, url) ==
    CASE available /\ url -> "Completed"
      [] available /\ ~url -> "Inconsistent"
      [] ~available /\ present /\ ~scheduled -> "Failed"
      [] OTHER -> "Pending"
\* the attributes of the last reading of p
ClassOfReading(p) ==
    LET j == inv[p].reading
    IN  ClassOf(j.kind = "job", j.kind = "job" /\ j.scheduled,
                j.kind = "job" /\ j.hasResult /\ j.available,
                j.blobUrl \notin {Undefined, Null, Str("")})
\* the branches of the loop body p has taken on its last reading, seen from what
\* the branch does: the URL is kept, one of the two errors is thrown, or a sleep
\* is started
BranchesTaken(p) ==
    {c \in {"Completed", "Inconsistent", "Failed", "Pending"} :
        CASE c = "Completed" -> inv[p].imageUrl # Undefined
          [] c = "Inconsistent" -> inv[p].result = Throw(NoUrlMessage)
          [] c = "Failed" -> inv[p].result = Throw(JobFailedMessage)
          [] OTHER -> inv[p].nSleeps = inv[p].nQueries}

\* C24: the handler classifies every status reading, by (first job present,
\* scheduled, available, URL present) alone, into exactly one class: once the
\* reading of a query is handled, exactly one branch has been taken, and it is
\* Completed for available with a URL (scheduled or not), Inconsistent for
\* available without a URL, Failed for a present job that is neither scheduled
\* nor available, and Pending for every other reading.
C24_ClassificationTotal ==
    \A p \in Procs :
        (inv[p].reading.kind \in {"nojob", "job"} /\ inv[p].pc # "query") =>
            /\ BranchesTaken(p) = {ClassOfReading(p)}
            /\ (inv[p].reading.available /\ inv[p].reading.scheduled) =>
                    BranchesTaken(p) \subseteq {"Completed", "Inconsistent"}
            /\ ClassOfReading(p) = "Completed" => inv[p].imageUrl = inv[p].reading.blobUrl

\* a job that is scheduled and available with a URL: Completed, the download starts
C24_Witness ==
    \E p \in Procs :
        /\ inv[p].reading.kind = "job" /\ inv[p].reading.scheduled
        /\ inv[p].reading.available /\ inv[p].reading.blobUrl = Str("https://x/img.png")
        /\ BranchesTaken(p) = {"Completed"} /\ inv[p].pc = "access"

\* the status query of p returns in this step, without a job record
NoJobReceived(p) ==
    inv[p].pc = "query" /\ inv'[p].pc # "query" /\ inv'[p].reading.kind = "nojob"

\* C25: a status response without a first job record is a pending reading, not
\* a failure and not an error: the handler sleeps one interval and, when the
\* sleep ends, queries again if the elapsed time is below the deadline, and throws
\* the timeout error otherwise.  With a service that never returns a job record,
\* every invocation that got its token ends in the timeout error, at or after
\* the deadline, and in nothing else.
C25_NoJobIsPending ==
    /\ \A p \in Procs : HasJob(p) ~> inv[p].result = Throw(TimeoutMessage)
    /\ [](\A p \in Procs :
            inv[p].reading.kind = "nojob" =>
                /\ inv[p].result \in {NoResult, Throw(TimeoutMessage)}
                /\ inv[p].result \notin {Throw(JobFailedMessage)} \cup PollingErrors
                /\ Polling(p) \/ Done(p)
                /\ inv[p].pc = "sleep" =>
                        (inv[p].due = clock + pollIntervalMs
                            /\ inv[p].nSleeps = inv[p].nQueries)
                /\ Done(p) => (Elapsed(p) >= timeoutMs /\ inv[p].nSleeps = inv[p].nQueries))
    /\ [][\A p \in Procs :
            /\ NoJobReceived(p) =>
                    (inv'[p].pc = "sleep" /\ inv'[p].nSleeps = inv[p].nSleeps + 1)
            /\ (SleepEnds(p) /\ inv[p].reading.kind = "nojob") =>
                    IF clock' - inv[p].startTime < timeoutMs
                    THEN inv'[p].pc = "query" /\ inv'[p].nQueries = inv[p].nQueries + 1
                    ELSE inv'[p].result = Throw(TimeoutMessage)]_vars

\* sixty responses without a job record, then the timeout, in part_000
C25_Witness ==
    \E p \in Procs :
        /\ revision = "part_000"
        /\ inv[p].reading.kind = "nojob" /\ inv[p].nQueries = 60
        /\ inv[p].result = Throw(TimeoutMessage) /\ Elapsed(p) >= timeoutMs

\* the time the last status query of p took, for an invocation whose last sleep
\* has ended at the present instant
LastLatency(p) == Elapsed(p) - pollIntervalMs - inv[p].queryStart

\* C26: the timeout error is thrown with a bounded overshoot.  At least one
\* status query was issued; the last query started before the deadline and the
\* last sleep at its return, so the error comes at an elapsed time of the start
\* of that query plus its latency plus one interval: never before the deadline,
\* below deadline + L + interval when the queries take at most L, and in
\* [deadline, deadline + interval) when the queries take no time (at 6 s for a
\* 5 s deadline and a 2 s interval).
C26_BoundedOvershoot ==
    /\ \A p \in Procs :
        inv[p].result = Throw(TimeoutMessage) =>
            /\ inv[p].nQueries >= 1 /\ inv[p].queried # {}
            /\ 0 <= inv[p].queryStart /\ inv[p].queryStart < timeoutMs
            /\ LastLatency(p) \in 0..(1000 * MaxLatencySec)
            /\ Elapsed(p) >= timeoutMs
            /\ Elapsed(p) < timeoutMs + 1000 * MaxLatencySec + pollIntervalMs
            /\ NoLatency(p) =>
                    (timeoutMs <= Elapsed(p) /\ Elapsed(p) < timeoutMs + pollIntervalMs)
    /\ \A p \in Procs :
        inv[p].pc = "sleep" =>
            (Elapsed(p) - inv[p].queryStart) \in 0..(1000 * MaxLatencySec)
    /\ 5000 <= PollsOf5sDeadline2sInterval * 2000
    /\ PollsOf5sDeadline2sInterval * 2000 < 5000 + 2000

\* the last query starts 2 s before the deadline and takes 2 s: the timeout
\* comes 2 s after the deadline
C26_Witness ==
    \E p \in Procs :
        /\ inv[p].result = Throw(TimeoutMessage)
        /\ inv[p].queryStart = timeoutMs - 2000 /\ LastLatency(p) = 2000
        /\ Elapsed(p) = timeoutMs + pollIntervalMs

=============================================================================
